---- MODULE Spec2Model ----
(***************************************************************************)
(* A model of open-vm-tools lib/lock/ulBarrier.c: the self-regenerating    *)
(* barrier (MXUser_EnterBarrier, MXUser_DestroyBarrier) and, further down, *)
(* its construction (MXUser_CreateBarrier, MXUser_CreateSingletonBarrier). *)
(*                                                                         *)
(* The exclusive lock and the condition variables are the library's own    *)
(* primitives: a lock has one owner at a time; a wait releases the lock,   *)
(* parks the caller and returns, with the lock reacquired, only after a    *)
(* broadcast on the condition variable it parked on.                       *)
(***************************************************************************)
EXTENDS Integers, FiniteSets, Sequences, TLC

\* ------------------------------------------------------------------ bounds
MaxParty == 3
MaxThreads == 4
MaxRounds == 2
TwoSetsParty == 3
MaxCallers == 3

\* #define MXUSER_BARRIER_SIGNATURE 0x52524142
MXUSER_BARRIER_SIGNATURE == 1380073794

\* Enough threads for every scenario below.
NumThreads ==
  LET a == IF MaxParty >= MaxThreads THEN MaxParty ELSE MaxThreads
      b == IF MaxCallers >= 2 * TwoSetsParty THEN MaxCallers ELSE 2 * TwoSetsParty
  IN IF a >= b THEN a ELSE b
Threads == 1..NumThreads
NoThread == 0
Contexts == {0, 1}

\* The pieces a barrier owns: its record, its name, its lock, its two condVars.
Resources == {"barrier", "name", "lock", "condVar0", "condVar1"}

VARIABLES
  configCount,  \* barrier->configCount
  emptying,     \* barrier->emptying
  curContext,   \* barrier->curContext
  count,        \* barrier->contexts[c].count
  signature,    \* barrier->header.signature
  live,         \* the resources of the barrier that have not been released
  lockOwner,    \* the thread holding barrier->lock, or NoThread
  waiters,      \* waiters[c]: the threads parked on contexts[c].condVar
  pc,           \* where each thread is inside MXUser_EnterBarrier
  ptr,          \* each thread's local ptr, as a context index
  parties,      \* the threads that use the barrier
  rounds,       \* how many times each of them calls MXUser_EnterBarrier
  called,       \* calls of MXUser_EnterBarrier begun, per thread
  returned,     \* calls of MXUser_EnterBarrier returned, per thread
  abnormal,     \* history: the thread's current call took the emptying branch
  regCur,       \* history: curContext when the thread registered
  regSeq,       \* history: broadcasts on its context before it registered
  bcastSeq,     \* history: broadcasts issued on each context's condVar
  bcastCount,   \* history: the count that triggered the last broadcast
  dpc,          \* where the owner is inside MXUser_DestroyBarrier
  dSeen,        \* the counts MXUser_DestroyBarrier read
  cell,         \* *barrierStorage of MXUser_CreateSingletonBarrier, 0 for NULL
  callers,      \* the threads that call MXUser_CreateSingletonBarrier
  spc,          \* where each caller is inside it
  reqCount,     \* each caller's count argument
  barrier,      \* each caller's local barrier, 0 for NULL
  newBarrier,   \* each caller's local newBarrier, 0 for NULL
  result,       \* what each caller's call returned
  objs,         \* objs[t]: the barrier record thread t allocated
  failedAt,     \* history: the sub-allocation that failed in t's create
  constructed,  \* history: MXUser_CreateBarrier calls that returned a barrier
  destroyed,    \* history: barriers MXUser_DestroyBarrier tore down
  installed     \* history: every barrier ever stored in the cell

bvars == <<configCount, emptying, curContext, count, signature, live,
           lockOwner, waiters, pc, ptr, parties, rounds, called, returned,
           abnormal, regCur, regSeq, bcastSeq, bcastCount, dpc, dSeen>>

svars == <<cell, callers, spc, reqCount, barrier, newBarrier, result, objs,
           failedAt, constructed, destroyed, installed>>

vars == <<bvars, svars>>

\* ------------------------------------------------------- MXUser_EnterBarrier

OtherStuck(c) == c

\* uint32 other = (barrier->curContext + 1) & 0x1;
Other(c) == (c + 1) % 2

\* if (barrier->emptying) ptr = &contexts[other] else ptr = &contexts[curContext]
ArrivalContextAlwaysCurrent(emp, cur) == cur

ArrivalContext(emp, cur) == IF emp THEN Other(cur) ELSE cur

\* barrier->emptying = (ptr->count == barrier->configCount);
IsLastArrivalOffByOne(cnt, cfg) == cnt + 1 >= cfg

IsLastArrival(cnt, cfg) == cnt = cfg

\* ptr->count--;
DecrementSkipped(n) == n

Decremented(n) == n - 1

IncrementedTwice(n) == n + 2

\* ptr->count++;
Incremented(n) == n + 1

\* if (ptr->count == 0): the context has drained.
DrainedEarly(n) == n <= 1

Drained(n) == n = 0

\* MXUser_AcquireExclLock, and the reacquisition that ends a wait, go through
\* only when no thread holds the lock.
LockIgnored(owner) == TRUE

LockFree(owner) == owner = NoThread

\* MXUser_BroadcastCondVar wakes every thread parked on the condVar.
WakeOne(ws) == IF ws = {} THEN {} ELSE {CHOOSE w \in ws : TRUE}

WakeSet(ws) == ws

\* The barrier can be used: not torn down, and the process has not panicked.
\* What a call still in flight does with a freed barrier is undefined, and a
\* panic ends the process: the model takes no step of MXUser_EnterBarrier
\* after either.
Usable == dpc \notin {"destroyed", "panicked"}

\* A thread between its count++ and its count--.
Registered(t) == pc[t] \in {"parked", "woken", "leave"}

RegisteredIn(c) == {t \in Threads : Registered(t) /\ ptr[t] = c}

EnterCall(t) ==
  /\ Usable
  /\ t \in parties
  /\ pc[t] = "idle"
  /\ called[t] < rounds
  /\ signature = MXUSER_BARRIER_SIGNATURE
  /\ pc' = [pc EXCEPT ![t] = "acquire"]
  /\ called' = [called EXCEPT ![t] = @ + 1]
  /\ UNCHANGED <<configCount, emptying, curContext, count, signature, live,
                 lockOwner, waiters, ptr, parties, rounds, returned,
                 abnormal, regCur, regSeq, bcastSeq, bcastCount,
                 dpc, dSeen>>
  /\ UNCHANGED svars

\* MXUser_AcquireExclLock(barrier->lock);
EnterAcquire(t) ==
  /\ Usable
  /\ pc[t] = "acquire"
  /\ LockFree(lockOwner)
  /\ lockOwner' = t
  /\ pc' = [pc EXCEPT ![t] = "locked"]
  /\ UNCHANGED <<configCount, emptying, curContext, count, signature, live,
                 waiters, ptr, parties, rounds, called, returned,
                 abnormal, regCur, regSeq, bcastSeq, bcastCount,
                 dpc, dSeen>>
  /\ UNCHANGED svars

\* The if (barrier->emptying) { ... } else { ... } of lines 237-278: register
\* in a context, then park on its condVar or broadcast on it.
EnterArrive(t) ==
  /\ Usable
  /\ pc[t] = "locked"
  /\ lockOwner = t
  /\ LET c == ArrivalContext(emptying, curContext)
         n == Incremented(count[c])
         last == (~emptying) /\ IsLastArrival(n, configCount)
         woken == IF last THEN WakeSet(waiters[c]) ELSE {}
     IN /\ count' = [count EXCEPT ![c] = n]
        /\ ptr' = [ptr EXCEPT ![t] = c]
        /\ abnormal' = [abnormal EXCEPT ![t] = emptying]
        /\ regCur' = [regCur EXCEPT ![t] = curContext]
        /\ regSeq' = [regSeq EXCEPT ![t] = bcastSeq[c]]
        /\ emptying' = IF emptying THEN emptying ELSE last
        /\ IF last
             THEN /\ waiters' = [waiters EXCEPT ![c] = @ \ woken]
                  /\ pc' = [u \in Threads |->
                              IF u = t THEN "leave"
                              ELSE IF u \in woken THEN "woken" ELSE pc[u]]
                  /\ bcastSeq' = [bcastSeq EXCEPT ![c] = @ + 1]
                  /\ bcastCount' = [bcastCount EXCEPT ![c] = n]
                  /\ UNCHANGED lockOwner
             ELSE /\ waiters' = [waiters EXCEPT ![c] = @ \cup {t}]
                  /\ pc' = [pc EXCEPT ![t] = "parked"]
                  /\ lockOwner' = NoThread
                  /\ UNCHANGED <<bcastSeq, bcastCount>>
  /\ UNCHANGED <<configCount, curContext, signature, live, parties, rounds,
                 called, returned, dpc, dSeen>>
  /\ UNCHANGED svars

\* The return of MXUser_WaitCondVarExclLock: the woken thread has the lock again.
EnterWake(t) ==
  /\ Usable
  /\ pc[t] = "woken"
  /\ LockFree(lockOwner)
  /\ lockOwner' = t
  /\ pc' = [pc EXCEPT ![t] = "leave"]
  /\ UNCHANGED <<configCount, emptying, curContext, count, signature, live,
                 waiters, ptr, parties, rounds, called, returned,
                 abnormal, regCur, regSeq, bcastSeq, bcastCount,
                 dpc, dSeen>>
  /\ UNCHANGED svars

\* ptr->count--; if (ptr->count == 0) { emptying = FALSE; curContext = other }
EnterLeave(t) ==
  /\ Usable
  /\ pc[t] = "leave"
  /\ lockOwner = t
  /\ LET n == Decremented(count[ptr[t]])
     IN /\ count' = [count EXCEPT ![ptr[t]] = n]
        /\ emptying' = IF Drained(n) THEN FALSE ELSE emptying
        /\ curContext' = IF Drained(n) THEN Other(curContext) ELSE curContext
  /\ pc' = [pc EXCEPT ![t] = "release"]
  /\ UNCHANGED <<configCount, signature, live, lockOwner, waiters, ptr,
                 parties, rounds, called, returned,
                 abnormal, regCur, regSeq, bcastSeq, bcastCount,
                 dpc, dSeen>>
  /\ UNCHANGED svars

\* MXUser_ReleaseExclLock(barrier->lock); and the return.
EnterRelease(t) ==
  /\ Usable
  /\ pc[t] = "release"
  /\ lockOwner = t
  /\ lockOwner' = NoThread
  /\ pc' = [pc EXCEPT ![t] = "idle"]
  /\ returned' = [returned EXCEPT ![t] = @ + 1]
  /\ ptr' = [ptr EXCEPT ![t] = 0]
  /\ abnormal' = [abnormal EXCEPT ![t] = FALSE]
  /\ regCur' = [regCur EXCEPT ![t] = 0]
  /\ regSeq' = [regSeq EXCEPT ![t] = 0]
  /\ UNCHANGED <<configCount, emptying, curContext, count, signature, live,
                 waiters, parties, rounds, called,
                 bcastSeq, bcastCount, dpc, dSeen>>
  /\ UNCHANGED svars

EnterStep(t) ==
  \/ EnterCall(t)
  \/ EnterAcquire(t)
  \/ EnterArrive(t)
  \/ EnterWake(t)
  \/ EnterLeave(t)
  \/ EnterRelease(t)

\* ----------------------------------------------------- MXUser_DestroyBarrier

\* (contexts[0].count != 0) || (contexts[1].count != 0)
DestroyInUseFirstOnly(c0, c1) == c0 # 0

DestroyInUse(c0, c1) == (c0 # 0) \/ (c1 # 0)

\* MXUser_DestroyCondVar twice, MXUser_DestroyExclLock, free(name), free(barrier)
Released(res) == res \ {"condVar0", "condVar1", "lock", "name", "barrier"}

\* ASSERT(signature == MXUSER_BARRIER_SIGNATURE), then the read of contexts[0].count.
\* MXUser_DestroyBarrier takes no lock: its two reads may fall anywhere among
\* the steps of the threads inside MXUser_EnterBarrier, each read giving the
\* count as it is before or after a racing count++ or count--.
DestroyRead0 ==
  /\ dpc = "idle"
  /\ signature = MXUSER_BARRIER_SIGNATURE
  /\ dSeen' = [dSeen EXCEPT ![0] = count[0]]
  /\ dpc' = "read1"
  /\ UNCHANGED <<configCount, emptying, curContext, count, signature, live,
                 lockOwner, waiters, pc, ptr, parties, rounds, called,
                 returned, abnormal, regCur, regSeq, bcastSeq, bcastCount>>
  /\ UNCHANGED svars

\* The read of contexts[1].count.
DestroyRead1 ==
  /\ dpc = "read1"
  /\ dSeen' = [dSeen EXCEPT ![1] = count[1]]
  /\ dpc' = "decide"
  /\ UNCHANGED <<configCount, emptying, curContext, count, signature, live,
                 lockOwner, waiters, pc, ptr, parties, rounds, called,
                 returned, abnormal, regCur, regSeq, bcastSeq, bcastCount>>
  /\ UNCHANGED svars

\* MXUserDumpAndPanic, which does not return; or the teardown of lines 194-201.
DestroyFinish ==
  /\ dpc = "decide"
  /\ IF DestroyInUse(dSeen[0], dSeen[1])
       THEN /\ dpc' = "panicked"
            /\ UNCHANGED <<signature, live>>
       ELSE /\ dpc' = "destroyed"
            /\ signature' = 0
            /\ live' = Released(live)
  /\ UNCHANGED <<configCount, emptying, curContext, count,
                 lockOwner, waiters, pc, ptr, parties, rounds, called,
                 returned, abnormal, regCur, regSeq, bcastSeq, bcastCount,
                 dSeen>>
  /\ UNCHANGED svars

DestroyStep ==
  \/ DestroyRead0
  \/ DestroyRead1
  \/ DestroyFinish

\* ------------------------------------------------------ MXUser_CreateBarrier

NULL == 0

\* barrier = Util_SafeCalloc(1, sizeof(*barrier)): every field zero, nothing owned.
Zeroed ==
  [signature |-> 0, configCount |-> 0, emptying |-> FALSE, curContext |-> 0,
   count |-> [c \in Contexts |-> 0], res |-> {}]

\* lock == NULL: free(properName); free(barrier);
LockFailureCleanup(res) == res \ {"name", "barrier"}

\* A condVar is NULL: both MXUser_DestroyCondVar calls (a no-op on the NULL
\* one), MXUser_DestroyExclLock, free(properName), free(barrier).
CondVarFailureLeaksLock(res) == res \ {"condVar0", "condVar1", "name", "barrier"}

CondVarFailureCleanup(res) ==
  res \ {"condVar0", "condVar1", "lock", "name", "barrier"}

\* MXUser_CreateBarrier(name, rank, n) in full, on a record of the caller's
\* own: okLock, ok0 and ok1 say which of MXUser_CreateExclLock and the two
\* MXUser_CreateCondVarExclLock calls succeed. The barrier record it leaves,
\* what it returns (self, or NULL) and the sub-allocation that failed.
CreateBarrier(self, n, okLock, ok0, ok1) ==
  LET allocated == {"barrier", "name"}
      locked == allocated \cup {"lock"}
      made == locked \cup (IF ok0 THEN {"condVar0"} ELSE {})
                     \cup (IF ok1 THEN {"condVar1"} ELSE {})
  IN IF ~okLock
       THEN [obj |-> [Zeroed EXCEPT !.res = LockFailureCleanup(allocated)],
             ret |-> NULL, failed |-> "lock"]
     ELSE IF ~(ok0 /\ ok1)
       THEN [obj |-> [Zeroed EXCEPT !.res = CondVarFailureCleanup(made)],
             ret |-> NULL, failed |-> "condVar"]
     ELSE [obj |-> [Zeroed EXCEPT !.res = made,
                                  !.configCount = n,
                                  !.emptying = FALSE,
                                  !.curContext = 0,
                                  !.signature = MXUSER_BARRIER_SIGNATURE],
           ret |-> self, failed |-> "none"]

\* --------------------------------------------- MXUser_CreateSingletonBarrier

\* Atomic_ReadIfEqualWritePtr(barrierStorage, NULL, newBarrier): the cell after it.
CellAfterStore(cur, new) == new

CellAfterCas(cur, new) == IF cur = NULL THEN new ELSE cur

\* barrier = Atomic_ReadPtr(barrierStorage); return barrier unless it is NULL.
SingletonRead(t) ==
  /\ t \in callers
  /\ spc[t] = "idle"
  /\ barrier' = [barrier EXCEPT ![t] = cell]
  /\ IF cell = NULL
       THEN /\ \E n \in 1..MaxParty : reqCount' = [reqCount EXCEPT ![t] = n]
            /\ spc' = [spc EXCEPT ![t] = "create"]
            /\ UNCHANGED result
       ELSE /\ result' = [result EXCEPT ![t] = cell]
            /\ spc' = [spc EXCEPT ![t] = "done"]
            /\ UNCHANGED reqCount
  /\ UNCHANGED <<cell, callers, newBarrier, objs,
                 failedAt, constructed, destroyed, installed>>
  /\ UNCHANGED bvars

\* MXUserBarrier *newBarrier = MXUser_CreateBarrier(name, rank, count);
SingletonCreate(t) ==
  /\ spc[t] = "create"
  /\ \E okLock, ok0, ok1 \in BOOLEAN :
       LET c == CreateBarrier(t, reqCount[t], okLock, ok0, ok1)
       IN /\ objs' = [objs EXCEPT ![t] = c.obj]
          /\ newBarrier' = [newBarrier EXCEPT ![t] = c.ret]
          /\ failedAt' = [failedAt EXCEPT ![t] = c.failed]
          /\ constructed' = IF c.ret # NULL THEN constructed + 1 ELSE constructed
  /\ spc' = [spc EXCEPT ![t] = "cas"]
  /\ UNCHANGED <<cell, callers, reqCount, barrier, result, destroyed,
                 installed>>
  /\ UNCHANGED bvars

\* barrier = Atomic_ReadIfEqualWritePtr(barrierStorage, NULL, newBarrier);
SingletonCas(t) ==
  /\ spc[t] = "cas"
  /\ barrier' = [barrier EXCEPT ![t] = cell]
  /\ cell' = CellAfterCas(cell, newBarrier[t])
  /\ installed' = installed \cup ({cell'} \ {NULL})
  /\ spc' = [spc EXCEPT ![t] = IF cell # NULL THEN "destroy" ELSE "reread"]
  /\ reqCount' = [reqCount EXCEPT ![t] = 0]
  /\ UNCHANGED <<callers, newBarrier, result, objs,
                 failedAt, constructed, destroyed>>
  /\ UNCHANGED bvars

\* if (barrier) MXUser_DestroyBarrier(newBarrier): nothing for NULL, a panic
\* for a barrier in use, the teardown otherwise; then return barrier.
SingletonDestroy(t) ==
  /\ spc[t] = "destroy"
  /\ LET b == newBarrier[t]
     IN IF b = NULL
          THEN /\ spc' = [spc EXCEPT ![t] = "done"]
               /\ result' = [result EXCEPT ![t] = barrier[t]]
               /\ UNCHANGED <<objs, destroyed>>
          ELSE IF DestroyInUse(objs[b].count[0], objs[b].count[1])
            THEN /\ spc' = [spc EXCEPT ![t] = "panicked"]
                 /\ UNCHANGED <<objs, destroyed, result>>
            ELSE /\ objs' = [objs EXCEPT ![b] =
                               [Zeroed EXCEPT !.res = Released(objs[b].res)]]
                 /\ destroyed' = destroyed + 1
                 /\ result' = [result EXCEPT ![t] = barrier[t]]
                 /\ spc' = [spc EXCEPT ![t] = "done"]
  /\ UNCHANGED <<cell, callers, reqCount, barrier, newBarrier,
                 failedAt, constructed, installed>>
  /\ UNCHANGED bvars

\* else barrier = Atomic_ReadPtr(barrierStorage); then return barrier.
SingletonReread(t) ==
  /\ spc[t] = "reread"
  /\ barrier' = [barrier EXCEPT ![t] = cell]
  /\ result' = [result EXCEPT ![t] = cell]
  /\ spc' = [spc EXCEPT ![t] = "done"]
  /\ UNCHANGED <<cell, callers, reqCount, newBarrier, objs,
                 failedAt, constructed, destroyed, installed>>
  /\ UNCHANGED bvars

SingletonStep(t) ==
  \/ SingletonRead(t)
  \/ SingletonCreate(t)
  \/ SingletonCas(t)
  \/ SingletonDestroy(t)
  \/ SingletonReread(t)

\* ------------------------------------------------------------ specifications

\* The storage cell still NULL, and the threads of p about to call
\* MXUser_CreateSingletonBarrier on it.
InitSingleton(p) ==
  /\ cell = NULL
  /\ callers = p
  /\ spc = [t \in Threads |-> "idle"]
  /\ reqCount = [t \in Threads |-> 0]
  /\ barrier = [t \in Threads |-> NULL]
  /\ newBarrier = [t \in Threads |-> NULL]
  /\ result = [t \in Threads |-> NULL]
  /\ objs = [t \in Threads |-> Zeroed]
  /\ failedAt = [t \in Threads |-> "none"]
  /\ constructed = 0
  /\ destroyed = 0
  /\ installed = {}

\* The barrier as MXUser_CreateBarrier(name, rank, n) returns it, used by the
\* threads of p, each calling MXUser_EnterBarrier r times.
InitBarrier(n, p, r) ==
  /\ configCount = n
  /\ emptying = FALSE
  /\ curContext = 0
  /\ count = [c \in Contexts |-> 0]
  /\ signature = MXUSER_BARRIER_SIGNATURE
  /\ live = Resources
  /\ lockOwner = NoThread
  /\ waiters = [c \in Contexts |-> {}]
  /\ pc = [t \in Threads |-> "idle"]
  /\ ptr = [t \in Threads |-> 0]
  /\ parties = p
  /\ rounds = r
  /\ called = [t \in Threads |-> 0]
  /\ returned = [t \in Threads |-> 0]
  /\ abnormal = [t \in Threads |-> FALSE]
  /\ regCur = [t \in Threads |-> 0]
  /\ regSeq = [t \in Threads |-> 0]
  /\ bcastSeq = [c \in Contexts |-> 0]
  /\ bcastCount = [c \in Contexts |-> 0]
  /\ dpc = "idle"
  /\ dSeen = [c \in Contexts |-> 0]

\* Any number of threads and any party count, each thread entering r times.
Init ==
  /\ \E n \in 1..MaxParty, k \in 1..MaxThreads, r \in 1..MaxRounds :
       InitBarrier(n, 1..k, r)
  /\ InitSingleton({})

Next == \E t \in Threads : EnterStep(t)

Spec == Init /\ [][Next]_vars

\* The same with an owner that calls MXUser_DestroyBarrier at any moment,
\* each thread entering once.
InitDestroy ==
  /\ \E n \in 1..MaxParty, k \in 1..MaxThreads : InitBarrier(n, 1..k, 1)
  /\ InitSingleton({})

NextDestroy ==
  \/ \E t \in Threads : EnterStep(t)
  \/ DestroyStep

SpecDestroy == InitDestroy /\ [][NextDestroy]_vars

\* Exactly partyCount threads, each entering the same number of times.
InitExact ==
  /\ \E n \in 1..MaxParty, r \in 1..MaxRounds : InitBarrier(n, 1..n, r)
  /\ InitSingleton({})

NextExact == \E t \in Threads : EnterStep(t)

SpecExact ==
  /\ InitExact
  /\ [][NextExact]_vars
  /\ \A t \in Threads : WF_vars(EnterStep(t))

\* The scenario of two sets of TwoSetsParty threads each, on one barrier: the
\* last thread of the first set calls once the others of its set are parked,
\* and the second set calls once that thread has registered (and so released
\* the first round), at any moment from then on.
FirstSet == 1..TwoSetsParty
SecondSet == (TwoSetsParty + 1)..(2 * TwoSetsParty)

TwoSetsOrder(t) ==
  /\ (t = TwoSetsParty) =>
        \A u \in FirstSet \ {t} : pc[u] = "parked"
  /\ (t \in SecondSet) =>
        /\ called[TwoSetsParty] = 1
        /\ pc[TwoSetsParty] \notin {"acquire", "locked"}

InitTwoSets ==
  /\ InitBarrier(TwoSetsParty, FirstSet \cup SecondSet, 1)
  /\ InitSingleton({})

\* One to MaxCallers threads calling MXUser_CreateSingletonBarrier on one cell;
\* no thread enters a barrier.
InitCallers ==
  /\ InitBarrier(1, {}, 1)
  /\ \E m \in 1..MaxCallers : InitSingleton(1..m)

NextSingleton == \E t \in Threads : SingletonStep(t)

SpecSingleton == InitCallers /\ [][NextSingleton]_vars

TwoSetsStep(t) ==
  \/ TwoSetsOrder(t) /\ EnterCall(t)
  \/ EnterAcquire(t)
  \/ EnterArrive(t)
  \/ EnterWake(t)
  \/ EnterLeave(t)
  \/ EnterRelease(t)

NextTwoSets == \E t \in Threads : TwoSetsStep(t)

SpecTwoSets ==
  /\ InitTwoSets
  /\ [][NextTwoSets]_vars
  /\ \A t \in Threads : WF_vars(TwoSetsStep(t))

\* -------------------------------------------------------------------- claims

RECURSIVE SumOver(_, _)
SumOver(f, S) ==
  IF S = {} THEN 0
  ELSE LET x == CHOOSE y \in S : TRUE IN f[x] + SumOver(f, S \ {x})

AllReturned == \A t \in parties : returned[t] = rounds

PastWait(t) == pc[t] \in {"woken", "leave", "release"}

\* C1: with exactly partyCount threads that each enter once, no thread has
\* returned from MXUser_EnterBarrier unless every one of them has called it.
BarrierSafety ==
  (rounds = 1) =>
     \A t \in parties :
        (returned[t] >= 1) => \A u \in parties : called[u] >= 1

\* C1 witness: a round of at least two threads in which one thread has
\* returned while another, woken, is still inside.
BarrierSafetyWitness ==
  /\ rounds = 1
  /\ configCount >= 2
  /\ \E t, u \in parties : returned[t] = 1 /\ pc[u] = "woken"

\* C2: with exactly partyCount threads that each enter once, under fair
\* scheduling every call eventually returns.
BarrierLiveness == <>((rounds = 1) => AllReturned)

\* C2 witness: every thread of a round of the largest party count has returned.
BarrierLivenessWitness ==
  /\ rounds = 1
  /\ configCount = MaxParty
  /\ AllReturned

\* C3: the same partyCount threads entering two or more times each, without
\* any reset: no thread returns from its k-th call before every thread has
\* made its k-th call, and every call of every round eventually returns.
RoundSafe == \A t, u \in parties : returned[t] <= called[u]

Reusable ==
  /\ []((rounds >= 2) => RoundSafe)
  /\ <>((rounds >= 2) => AllReturned)

\* C3 witness: a fast thread has re-entered for its second round, parked as
\* an abnormal arrival, while a thread of the first round has not left yet.
ReusableWitness ==
  /\ rounds >= 2
  /\ \E t, u \in parties :
        /\ called[t] = 2 /\ abnormal[t] /\ pc[t] = "parked"
        /\ called[u] = 1 /\ pc[u] = "woken"

\* C4: a second set of TwoSetsParty threads entering right after the last
\* thread of the first set behaves like the first: none of them returns
\* before all of them have called, and all of them eventually return.
SecondSetLikeFirst ==
  /\ [](\A t \in SecondSet :
          (returned[t] = 1) => \A u \in SecondSet : called[u] = 1)
  /\ <>(\A t \in SecondSet : returned[t] = 1)

\* C5: a thread that arrives while the barrier is emptying registers in the
\* context curContext does not name, parks there, and is past its wait only
\* after a later broadcast on that context, issued when its count reached
\* configCount.
AbnormalArrival ==
  \A t \in Threads :
     (abnormal[t] /\ pc[t] \in {"parked", "woken", "leave", "release"}) =>
        /\ ptr[t] = 1 - regCur[t]
        /\ (pc[t] = "parked") => (t \in waiters[ptr[t]])
        /\ PastWait(t) =>
              /\ bcastSeq[ptr[t]] > regSeq[t]
              /\ bcastCount[ptr[t]] = configCount

\* C5 witness: an abnormal arrival is about to return.
AbnormalArrivalWitness ==
  \E t \in Threads : abnormal[t] /\ pc[t] = "release"

\* C9: with configCount = 1 no call ever parks or takes the abnormal branch,
\* and between calls both counts are 0, emptying is false and curContext has
\* been toggled once per completed call.
PartyOfOne ==
  (configCount = 1) =>
     /\ \A t \in Threads : pc[t] \notin {"parked", "woken"} /\ ~abnormal[t]
     /\ \A c \in Contexts : waiters[c] = {}
     /\ (lockOwner = NoThread) =>
           /\ \A c \in Contexts : count[c] = 0
           /\ ~emptying
           /\ curContext = SumOver(returned, Threads) % 2

\* C9 witness: several threads on a barrier of one, three calls done, one
\* thread contending for the lock.
PartyOfOneWitness ==
  /\ configCount = 1
  /\ Cardinality(parties) >= 2
  /\ SumOver(returned, Threads) >= 3
  /\ lockOwner = NoThread
  /\ \E t \in Threads : pc[t] = "acquire"

\* C6: MXUser_DestroyBarrier tears the barrier down (both condVars, the lock,
\* the name and the record released, the signature cleared) only when both
\* counts it read were 0, and panics, with nothing released, when either of
\* the counts it read was not 0.
DestroyChecksBothCounts ==
  /\ (dpc = "destroyed") =>
        /\ dSeen[0] = 0 /\ dSeen[1] = 0
        /\ live = {}
        /\ signature = 0
  /\ (dpc = "panicked") =>
        /\ (dSeen[0] # 0) \/ (dSeen[1] # 0)
        /\ live = Resources
        /\ signature = MXUSER_BARRIER_SIGNATURE

\* C6 witness: the panic was decided by the second count alone.
DestroyChecksBothCountsWitness ==
  /\ dpc = "panicked"
  /\ dSeen[0] = 0
  /\ dSeen[1] # 0

\* C10, as claimed: MXUser_DestroyBarrier never tears the barrier down while
\* a thread holds the barrier's lock inside MXUser_EnterBarrier.
DestroySerializedByLock ==
  (dpc = "destroyed") => (lockOwner = NoThread)

\* C10, amended: MXUser_DestroyBarrier takes no lock; each count it reads is
\* the number of threads then between their count++ and count-- in that
\* context, and it tears down only when both reads gave 0, whoever holds the
\* lock.
DestroyOrderedByCounts ==
  [][/\ (dpc = "idle" /\ dpc' = "read1") =>
           (dSeen'[0] = Cardinality(RegisteredIn(0)))
     /\ (dpc = "read1" /\ dpc' = "decide") =>
           (dSeen'[1] = Cardinality(RegisteredIn(1)))
     /\ (dpc = "decide" /\ dpc' = "destroyed") =>
           /\ dSeen[0] = 0 /\ dSeen[1] = 0
           /\ lockOwner' = lockOwner
    ]_vars

\* C10 witness: the barrier is torn down while a thread that has just
\* decremented its count still holds the lock.
DestroyOrderedByCountsWitness ==
  /\ dpc = "destroyed"
  /\ lockOwner # NoThread
  /\ pc[lockOwner] = "release"

AllCallersDone == \A t \in callers : spc[t] = "done"

NoCreateFailed == \A t \in Threads : failedAt[t] = "none"

LiveBarriers == {t \in Threads : objs[t].res # {}}

\* C7: when no candidate construction fails, at most one barrier is ever
\* installed in the cell; every caller that has returned got that barrier;
\* the installed barrier is intact and every returned caller's losing
\* candidate has been torn down; and once all callers have returned,
\* constructions minus destructions is 1 and the installed barrier is the
\* only live one.
SingletonUnique ==
  NoCreateFailed =>
     /\ Cardinality(installed) <= 1
     /\ (cell # NULL) => (installed = {cell} /\ objs[cell].res = Resources)
     /\ \A t \in callers :
           (spc[t] = "done") =>
              /\ result[t] # NULL
              /\ result[t] = cell
              /\ (newBarrier[t] \notin {NULL, cell}) => (objs[t].res = {})
     /\ AllCallersDone =>
           /\ constructed - destroyed = 1
           /\ LiveBarriers = {cell}

\* C7 witness: at least two callers raced, each built a candidate, all have
\* returned and a loser was destroyed.
SingletonUniqueWitness ==
  /\ NoCreateFailed
  /\ AllCallersDone
  /\ Cardinality(callers) >= 2
  /\ destroyed >= 1

\* C8: when MXUser_CreateBarrier has returned, a failed call (the lock or a
\* condVar could not be created) returned NULL and left none of its resources
\* live; a successful one left exactly the record, the name, one lock and two
\* condVars live, both counts 0, emptying false, curContext 0, configCount as
\* asked and the signature set.
CreateLeavesNoLeak ==
  \A t \in Threads :
     (spc[t] = "cas") =>
        IF failedAt[t] # "none"
          THEN /\ newBarrier[t] = NULL
               /\ objs[t].res = {}
          ELSE /\ newBarrier[t] = t
               /\ objs[t].res = Resources
               /\ \A c \in Contexts : objs[t].count[c] = 0
               /\ objs[t].emptying = FALSE
               /\ objs[t].curContext = 0
               /\ objs[t].configCount = reqCount[t]
               /\ objs[t].configCount >= 1
               /\ objs[t].signature = MXUSER_BARRIER_SIGNATURE

\* C8 witness: a create has just returned NULL after the lock had been
\* created and a condVar could not be.
CreateLeavesNoLeakWitness ==
  \E t \in Threads : spc[t] = "cas" /\ failedAt[t] = "condVar"

\* The threads registered in context c that wait: parked, or woken and not
\* yet holding the lock again.
WaitingIn(c) == {t \in Threads : pc[t] \in {"parked", "woken"} /\ ptr[t] = c}

\* C11: whenever the lock is free and the barrier is not emptying, the
\* current context holds fewer than configCount threads, so that a later
\* normal arrival can still bring it to configCount.
HandoffTriggerable ==
  (lockOwner = NoThread /\ ~emptying) => (count[curContext] < configCount)

\* C12: whenever the lock is free, each context's count is the number of
\* threads registered in it that have not decremented yet (parked or woken),
\* and the two counts add up to the number of all such threads.
CountAccounting ==
  (lockOwner = NoThread) =>
     /\ \A c \in Contexts : count[c] = Cardinality(WaitingIn(c))
     /\ count[0] + count[1] =
           Cardinality({t \in Threads : pc[t] \in {"parked", "woken"}})

\* C12 witness: the lock is free while threads wait in both contexts, some
\* parked and some woken.
CountAccountingWitness ==
  /\ lockOwner = NoThread
  /\ count[0] >= 1
  /\ count[1] >= 1
  /\ \E t, u \in Threads : pc[t] = "parked" /\ pc[u] = "woken"

\* C13: every step that changes curContext is the count-- of a thread that
\* holds the lock inside MXUser_EnterBarrier while emptying is true, and that
\* brings the count of the context curContext names from 1 to 0; and a count
\* that reaches 0 is always the one of the context curContext names.
ToggleOnlyOnDrain ==
  [][/\ (curContext' # curContext) =>
           /\ emptying
           /\ \E t \in Threads :
                 /\ lockOwner = t
                 /\ pc[t] = "leave" /\ pc'[t] = "release"
                 /\ ptr[t] = curContext
           /\ count[curContext] = 1
           /\ count'[curContext] = 0
     /\ \A c \in Contexts :
           (count[c] > 0 /\ count'[c] = 0) => (c = curContext)
    ]_vars

\* C13 witness: a thread has just drained context 0 and toggled curContext to
\* context 1, where abnormal arrivals are already registered.
ToggleOnlyOnDrainWitness ==
  /\ curContext = 1
  /\ ~emptying
  /\ count[0] = 0
  /\ count[1] >= 1
  /\ \E t \in Threads : pc[t] = "release" /\ ptr[t] = 0 /\ lockOwner = t

\* C14: whenever the lock is free, emptying is true exactly when the current
\* context has been released by a broadcast and still holds a woken thread
\* that has not decremented (and then nobody is parked on it); and in a step
\* taken while emptying is true the current context's count never grows, an
\* arriving thread being counted in the other context.
EmptyingMeaning ==
  /\ []((lockOwner = NoThread) =>
          /\ emptying <=>
                (\E t \in Threads : pc[t] = "woken" /\ ptr[t] = curContext)
          /\ emptying =>
                /\ bcastSeq[curContext] >= 1
                /\ waiters[curContext] = {}
                /\ count[curContext] >= 1)
  /\ [][emptying =>
          /\ count'[curContext] <= count[curContext]
          /\ \A t \in Threads :
                (pc[t] = "locked" /\ pc'[t] # "locked") =>
                   /\ ptr'[t] = 1 - curContext
                   /\ count'[1 - curContext] = count[1 - curContext] + 1
     ]_vars

\* C14 witness: the lock is free and the barrier is emptying, with a woken
\* thread still to leave and an arrival already counted in the other context.
EmptyingMeaningWitness ==
  /\ lockOwner = NoThread
  /\ emptying
  /\ count[1 - curContext] >= 1
  /\ \E t \in Threads : pc[t] = "woken" /\ ptr[t] = curContext

\* The rounds released and fully drained in context c.
RoundsDrained(c) ==
  bcastSeq[c] - (IF emptying /\ c = curContext THEN 1 ELSE 0)

\* C15: a step brings a count to 0 exactly when it clears emptying and exactly
\* when it toggles curContext, so each released round is ended by one thread
\* and toggles curContext once: the rounds drained alternate between the two
\* contexts, starting with context 0.
OneDrainPerRound ==
  /\ [](RoundsDrained(0) - RoundsDrained(1) = curContext)
  /\ [][/\ (\E c \in Contexts : count[c] > 0 /\ count'[c] = 0)
              <=> (emptying /\ ~emptying')
        /\ (emptying /\ ~emptying') <=> (curContext' # curContext)
        /\ (curContext' # curContext) =>
              (\E t \in Threads :
                  /\ pc[t] = "leave" /\ pc'[t] = "release"
                  /\ \A u \in Threads \ {t} : pc'[u] = pc[u])
       ]_vars

\* C15 witness: two rounds of at least two threads have been released and
\* drained, one in each context.
OneDrainPerRoundWitness ==
  /\ configCount >= 2
  /\ lockOwner = NoThread
  /\ ~emptying
  /\ curContext = 0
  /\ bcastSeq[0] = 1
  /\ bcastSeq[1] = 1

\* The threads between their acquisition of the lock and their release of
\* it, the wait apart.
InLockedSection == {t \in Threads : pc[t] \in {"locked", "leave", "release"}}

\* C16: at most one thread is in the locked section of MXUser_EnterBarrier,
\* and it is the lock's owner (so a parked thread does not hold the lock);
\* and every step that changes a count, emptying or curContext is a step of
\* the thread that holds the lock.
LockDiscipline ==
  /\ [](/\ Cardinality(InLockedSection) <= 1
        /\ InLockedSection = {lockOwner} \ {NoThread})
  /\ [][(count' # count \/ emptying' # emptying \/ curContext' # curContext) =>
          /\ lockOwner # NoThread
          /\ pc[lockOwner] \in {"locked", "leave"}
          /\ pc'[lockOwner] # pc[lockOwner]
          /\ \A u \in Threads \ {lockOwner} :
                \/ pc'[u] = pc[u]
                \/ (pc[u] = "parked" /\ pc'[u] = "woken")
       ]_vars

\* C16 witness: a thread holds the lock while another is parked and a third
\* waits to acquire the lock.
LockDisciplineWitness ==
  \E t, u, w \in Threads :
     /\ pc[t] = "leave" /\ lockOwner = t
     /\ pc[u] = "parked"
     /\ pc[w] = "acquire"

\* C18: whenever the lock is free and the barrier is not emptying, the
\* context curContext does not name holds no thread.
NonCurrentEmpty ==
  (lockOwner = NoThread /\ ~emptying) => (count[1 - curContext] = 0)

\* C18 witness: the lock is free after a handoff that made the abnormal
\* arrivals of context 1 the current round.
NonCurrentEmptyWitness ==
  /\ lockOwner = NoThread
  /\ ~emptying
  /\ curContext = 1
  /\ count[1] >= 1
  /\ bcastSeq[1] = 0
  /\ \E t \in Threads : returned[t] >= 1

\* C17: the cell changes only from NULL, to the candidate of a caller at its
\* compare-and-swap; a call that reads the cell non-NULL returns that value
\* and neither constructs nor destroys anything; and the barrier in the cell
\* is never torn down.
CellWriteOnce ==
  /\ []((cell # NULL) =>
          /\ objs[cell].res = Resources
          /\ objs[cell].signature = MXUSER_BARRIER_SIGNATURE)
  /\ [][/\ (cell' # cell) =>
              /\ cell = NULL
              /\ \E t \in Threads :
                    /\ spc[t] = "cas" /\ spc'[t] = "reread"
                    /\ newBarrier[t] # NULL
                    /\ cell' = newBarrier[t]
        /\ \A t \in Threads :
              (spc[t] = "idle" /\ spc'[t] # "idle" /\ cell # NULL) =>
                 /\ spc'[t] = "done"
                 /\ result'[t] = cell
                 /\ cell' = cell
                 /\ objs' = objs
                 /\ constructed' = constructed
                 /\ destroyed' = destroyed
       ]_vars

\* C17 witness: a caller that found the cell set has returned the installed
\* barrier, which another caller built, without building one itself.
CellWriteOnceWitness ==
  \E t \in callers :
     /\ spc[t] = "done"
     /\ failedAt[t] = "none"
     /\ newBarrier[t] = NULL
     /\ result[t] = cell
     /\ cell \notin {NULL, t}
     /\ constructed = 1

\* C19: every value MXUser_CreateSingletonBarrier returns is the live barrier
\* installed in the cell, never NULL, also when the caller's own
\* MXUser_CreateBarrier failed; and a failed construction installs nothing
\* and leaves the installed barrier intact.
SingletonNeverNull ==
  /\ \A t \in callers :
        (spc[t] = "done") =>
           /\ result[t] # NULL
           /\ result[t] = cell
           /\ objs[result[t]].res = Resources
  /\ \A t \in Threads : (failedAt[t] # "none") => (t \notin installed)
  /\ (cell # NULL) => (objs[cell].res = Resources)

====
